---- MODULE Spec2Model ----
(***************************************************************************)
(* SparkleText (src/src/SparkleText.tsx): a canvas particle effect whose   *)
(* sparks are emitted from the edges of rasterised text.                   *)
(*                                                                         *)
(* The module models                                                       *)
(*   - rebuildMask: alpha threshold, border flood fill with its explicit   *)
(*     queue, edge detection with gradient normals and their orientation   *)
(*     probe, and the publication of the refs;                             *)
(*   - tick: the requestAnimationFrame callback (dt clamp, budget trim,    *)
(*     spawn accounting with the fractional carry, integration, cull);     *)
(*   - the callers of rebuildMask (ResizeObserver, document.fonts.ready)   *)
(*     and the parent re-rendering the component with new props.           *)
(*                                                                         *)
(* Arithmetic.  Numbers that are floats in the source are fixed point:     *)
(*   normals          in 1/NormScale         (0.7071.. is 707)             *)
(*   positions        in 1/SubPx pixel                                     *)
(*   velocities       in 1/SubPx pixel per second                          *)
(*   time             in milliseconds                                      *)
(*   spawn carry      in 1/MsPerSec particle                               *)
(* Cells of a W x H grid are numbered row-major from 0, p = y*W + x, as    *)
(* the typed arrays of the source are.                                     *)
(***************************************************************************)
EXTENDS Integers, Sequences, FiniteSets, TLC

VARIABLES
    env,            \* the page: the wrapper's bounding rect [w, h] in CSS px, devicePixelRatio
    props,          \* the props of the latest render
    layoutEffect,   \* the live run of the useLayoutEffect: observer, fonts wait, closure
    canvas,         \* the overlay canvas: backing store [w, h] and what is painted on it
    dims,           \* dimsRef.current: [w, h]
    edgePoints,     \* edgePointsRef.current: sequence of edge points
    outsideMask,    \* outsideMaskRef.current: Null or [0..w*h-1 -> 0..1]
    insideMask,     \* insideMaskRef.current:  Null or [0..w*h-1 -> 0..1]
    ready,          \* the `ready` state
    particles,      \* particlesRef.current: sequence of particles, oldest first
    elapsed,        \* performance.now() - lastTRef.current, in ms
    spawnCarry,     \* spawnCarryRef.current, in 1/MsPerSec particle
    rb,             \* the activation of rebuildMask that is running step by step
    obs             \* observations of the run (history, read by the properties only)

vars == << env, props, layoutEffect, canvas, dims, edgePoints, outsideMask, insideMask, ready,
           particles, elapsed, spawnCarry, rb, obs >>

\* a ref that holds null: no array (an array of the source is never empty)
Null == << >>

-----------------------------------------------------------------------------
(* Bounds of the model *)

\* widest and tallest mask of the step-by-step rebuild
MaxW == 4
MaxH == 3

\* largest maxParticles the parent passes
MaxCap == 2

\* the run ends once this many particles have fallen due
MaxDue == 3

\* longest time without a processed tick, in ms
MaxElapsed == 100

\* most rebuild requests between two ticks
MaxBurst == 2

-----------------------------------------------------------------------------
(* Small helpers *)

Min(a, b) == IF a < b THEN a ELSE b
Max(a, b) == IF a > b THEN a ELSE b
Abs(a) == IF a < 0 THEN -a ELSE a
Sgn(a) == IF a < 0 THEN -1 ELSE IF a > 0 THEN 1 ELSE 0

\* division rounding toward zero, as a float product cut to an integer is
DivTrunc(a, b) == Sgn(a) * (Abs(a) \div b)

Cells(W, H) == 0 .. (W * H - 1)
CellOf(x, y, W) == y * W + x
InGrid(x, y, W, H) == x >= 0 /\ x < W /\ y >= 0 /\ y < H

-----------------------------------------------------------------------------
(* rebuildMask: the binary inside mask *)

\* alpha[idx] > 12
AlphaThreshold == 12

\* the alpha samples the model feeds: just below and just above the threshold
AlphaLevels == {AlphaThreshold, AlphaThreshold + 1}

\* alpha[idx] > 12 ? 1 : 0
IsInk(a) == a > AlphaThreshold

InsideOf(alpha, W, H) == [p \in Cells(W, H) |-> IF IsInk(alpha[p]) THEN 1 ELSE 0]

-----------------------------------------------------------------------------
(* rebuildMask: flood fill from the borders *)

\* outside, qx/qy (one array of pairs), qh, qt as allocated before the fill
FloodStart(W, H) ==
    [ outside |-> [p \in Cells(W, H) |-> 0],
      q       |-> [i \in Cells(W, H) |-> << 0, 0 >>],
      qh      |-> 0,
      qt      |-> 0,
      enq     |-> << >> ]

EnqueueMutNoInkTest(fs, px, py, inside, W) ==
    LET p == CellOf(px, py, W) IN
    IF fs.outside[p] = 0
    THEN [ outside |-> [fs.outside EXCEPT ![p] = 1],
           q       |-> IF fs.qt \in DOMAIN fs.q
                       THEN [fs.q EXCEPT ![fs.qt] = << px, py >>] ELSE fs.q,
           qh      |-> fs.qh,
           qt      |-> fs.qt + 1,
           enq     |-> Append(fs.enq, p) ]
    ELSE fs

\* enqueue without the `outside[p] === 0` test
EnqueueMutNoVisitedTest(fs, px, py, inside, W) ==
    LET p == CellOf(px, py, W) IN
    IF inside[p] = 0
    THEN [ outside |-> [fs.outside EXCEPT ![p] = 1],
           q       |-> IF fs.qt \in DOMAIN fs.q
                       THEN [fs.q EXCEPT ![fs.qt] = << px, py >>] ELSE fs.q,
           qh      |-> fs.qh,
           qt      |-> fs.qt + 1,
           enq     |-> Append(fs.enq, p) ]
    ELSE fs

\* enqueue(px, py). A typed array drops a write past its end; enq lists the
\* cells in the order they were enqueued (history).
Enqueue(fs, px, py, inside, W) ==
    LET p == CellOf(px, py, W) IN
    IF fs.outside[p] = 0 /\ inside[p] = 0
    THEN [ outside |-> [fs.outside EXCEPT ![p] = 1],
           q       |-> IF fs.qt \in DOMAIN fs.q
                       THEN [fs.q EXCEPT ![fs.qt] = << px, py >>] ELSE fs.q,
           qh      |-> fs.qh,
           qt      |-> fs.qt + 1,
           enq     |-> Append(fs.enq, p) ]
    ELSE fs

RECURSIVE EnqueueAll(_, _, _, _, _)
\* enqueue the cells of the sequence cs, from its i-th on, in order
EnqueueAll(fs, cs, i, inside, W) ==
    IF i > Len(cs) THEN fs
    ELSE EnqueueAll(Enqueue(fs, cs[i][1], cs[i][2], inside, W), cs, i + 1, inside, W)

\* the border cells in the order of the two seeding loops
SeedCells(W, H) ==
    [i \in 1 .. (2 * W) |->
        IF i % 2 = 1 THEN << (i - 1) \div 2, 0 >> ELSE << (i - 2) \div 2, H - 1 >>]
    \o
    [i \in 1 .. (2 * H) |->
        IF i % 2 = 1 THEN << 0, (i - 1) \div 2 >> ELSE << W - 1, (i - 2) \div 2 >>]

FloodSeed(inside, W, H) == EnqueueAll(FloodStart(W, H), SeedCells(W, H), 1, inside, W)

NeighbourOffsetsMut4 ==
    << << 0, -1 >>, << -1, 0 >>, << 1, 0 >>, << 0, 1 >> >>

\* (dx, dy) in the order of the loops: dy outer, dx inner, (0, 0) skipped
NeighbourOffsets ==
    << << -1, -1 >>, << 0, -1 >>, << 1, -1 >>,
       << -1,  0 >>,              << 1,  0 >>,
       << -1,  1 >>, << 0,  1 >>, << 1,  1 >> >>

\* the in-bounds neighbours of (px, py), in loop order
NeighbourCells(px, py, W, H) ==
    LET all == [i \in 1 .. Len(NeighbourOffsets) |->
                  << px + NeighbourOffsets[i][1], py + NeighbourOffsets[i][2] >>]
    IN SelectSeq(all, LAMBDA c : InGrid(c[1], c[2], W, H))

\* one iteration of `while (qh < qt)`
FloodPop(fs, inside, W, H) ==
    LET c  == fs.q[fs.qh]
        f1 == [fs EXCEPT !.qh = fs.qh + 1]
    IN EnqueueAll(f1, NeighbourCells(c[1], c[2], W, H), 1, inside, W)

RECURSIVE FloodRun(_, _, _, _)
FloodRun(fs, inside, W, H) ==
    IF fs.qh < fs.qt /\ fs.qh \in DOMAIN fs.q
    THEN FloodRun(FloodPop(fs, inside, W, H), inside, W, H)
    ELSE fs

\* the whole fill: seeding and the queue loop
FloodFill(inside, W, H) == FloodRun(FloodSeed(inside, W, H), inside, W, H)

-----------------------------------------------------------------------------
(* rebuildMask: region predicates *)

isOutside(outside, ix, iy, W) == outside[CellOf(ix, iy, W)] = 1
insideAt(inside, ix, iy, W) == inside[CellOf(ix, iy, W)] = 1
isHole(inside, outside, ix, iy, W) ==
    inside[CellOf(ix, iy, W)] = 0 /\ outside[CellOf(ix, iy, W)] = 0

-----------------------------------------------------------------------------
(* rebuildMask: edge detection and normals *)

\* fixed-point scale of the normal components
NormScale == 1000

\* the look-ahead of the orientation test, in px: ix + nxo * 2
ProbeStep == 2

\* Math.hypot(gx, gy) for gx, gy in -1..1, in 1/NormScale
Hypot(gx, gy) ==
    IF gx # 0 /\ gy # 0 THEN (NormScale * 1414) \div 1000
    ELSE IF gx # 0 \/ gy # 0 THEN NormScale
    ELSE 0

\* g / (Math.hypot(gx, gy) || 1), in 1/NormScale
Normalize(g, gx, gy) ==
    LET h   == Hypot(gx, gy)
        len == IF h = 0 THEN NormScale ELSE h
    IN DivTrunc(g * NormScale * NormScale, len)

\* Math.round of a value given in 1/NormScale: the nearest integer, halves up
RoundNorm(v) == (2 * v + NormScale) \div (2 * NormScale)

\* Math.min(hi, Math.max(0, Math.round(i + n * 2)))
Probe(i, n, hi) == Min(hi, Max(0, RoundNorm(i * NormScale + n * ProbeStep)))

\* the neighbour loops visiting only the 4 cells that share a side
EdgeNeighboursMut4(ix, iy) ==
    { << ix - 1, iy >>, << ix + 1, iy >>, << ix, iy - 1 >>, << ix, iy + 1 >> }

\* the 8 neighbours of an interior cell
EdgeNeighbours(ix, iy) ==
    { << ix + dx, iy + dy >> : dx \in -1 .. 1, dy \in -1 .. 1 } \ { << ix, iy >> }

touchesOutside(inside, outside, ix, iy, W) ==
    \E c \in EdgeNeighbours(ix, iy) : isOutside(outside, c[1], c[2], W)

touchesHole(inside, outside, ix, iy, W) ==
    \E c \in EdgeNeighbours(ix, iy) :
        /\ ~isOutside(outside, c[1], c[2], W)
        /\ isHole(inside, outside, c[1], c[2], W)

Bit(b) == IF b THEN 1 ELSE 0

\* central differences on the binary inside mask
GradX(inside, ix, iy, W) ==
    Bit(insideAt(inside, ix + 1, iy, W)) - Bit(insideAt(inside, ix - 1, iy, W))
GradY(inside, ix, iy, W) ==
    Bit(insideAt(inside, ix, iy + 1, W)) - Bit(insideAt(inside, ix, iy - 1, W))

\* An edge point as pushed: {x, y, nx, ny}. negz is the sign bit the negation
\* leaves on a zero component (-0), which Math.atan2 reads; kind is the branch
\* that pushed the point (history: the source stores no region type).
EdgePoint(ix, iy, nx, ny, flip, kind) ==
    [ x |-> ix, y |-> iy,
      nx |-> IF flip THEN -nx ELSE nx,
      ny |-> IF flip THEN -ny ELSE ny,
      negz |-> flip, kind |-> kind ]

\* the `if (touchesOutside)` block
OutsidePoint(inside, outside, ix, iy, nx, ny, W, H) ==
    LET testXo == Probe(ix, nx, W - 1)
        testYo == Probe(iy, ny, H - 1)
    IN EdgePoint(ix, iy, nx, ny, ~isOutside(outside, testXo, testYo, W), "OUTSIDE")

\* the `if (touchesHole)` block
HolePoint(inside, outside, ix, iy, nx, ny, W, H) ==
    LET testXh == Probe(ix, nx, W - 1)
        testYh == Probe(iy, ny, H - 1)
    IN EdgePoint(ix, iy, nx, ny, ~isHole(inside, outside, testXh, testYh, W), "HOLE")

\* the body of the detection loops for one cell: the points it pushes
EdgePointsAt(inside, outside, ix, iy, W, H) ==
    IF ~insideAt(inside, ix, iy, W) THEN << >>
    ELSE
      LET tO == touchesOutside(inside, outside, ix, iy, W)
          tH == touchesHole(inside, outside, ix, iy, W)
          gx == GradX(inside, ix, iy, W)
          gy == GradY(inside, ix, iy, W)
          nx == Normalize(gx, gx, gy)
          ny == Normalize(gy, gx, gy)
      IN (IF tO THEN << OutsidePoint(inside, outside, ix, iy, nx, ny, W, H) >> ELSE << >>)
         \o
         (IF tH THEN << HolePoint(inside, outside, ix, iy, nx, ny, W, H) >> ELSE << >>)

\* the cells the detection loops visit (the border ring is skipped), in order
InteriorCells(W, H) ==
    IF W < 3 \/ H < 3 THEN << >>
    ELSE [k \in 1 .. ((W - 2) * (H - 2)) |->
            << 1 + ((k - 1) % (W - 2)), 1 + ((k - 1) \div (W - 2)) >>]

RECURSIVE EdgesFrom(_, _, _, _, _, _)
EdgesFrom(cs, i, inside, outside, W, H) ==
    IF i > Len(cs) THEN << >>
    ELSE EdgePointsAt(inside, outside, cs[i][1], cs[i][2], W, H)
         \o EdgesFrom(cs, i + 1, inside, outside, W, H)

\* the whole detection: the list `edges`
ExtractEdges(inside, outside, W, H) ==
    EdgesFrom(InteriorCells(W, H), 1, inside, outside, W, H)

-----------------------------------------------------------------------------
(* The component as constructed *)

\* the props the model starts from; particleSize and colors only reach the
\* drawing calls and are left out
StartProps ==
    [ emissionRate |-> 20,      \* particles per second
      speed        |-> 0,       \* px per second
      spreadOct    |-> 0,       \* spread, in eighths of a turn
      gravity      |-> 0,       \* px per second^2
      maxParticles |-> 2,
      ttlMin       |-> 100,     \* ms
      ttlMax       |-> 100,     \* ms
      paused       |-> FALSE,
      canvasBleed  |-> 0,
      allowInside  |-> FALSE ]  \* documented (README, SPARKLE_DEFAULTS); not read by the component

\* the summary of a tick, before any tick has run
NoTick ==
    [ ran |-> FALSE, stage |-> "none", dt |-> 0, lenBefore |-> 0, trimmed |-> 0,
      due |-> 0, spawned |-> 0, fillCulled |-> 0 ]

\* nothing observed yet
StartObs ==
    [ tick     |-> NoTick,   \* what the latest step did, when it was a tick
      sameGen  |-> TRUE,     \* dims, masks and edges were left by the same rebuild
      requests |-> 0,        \* rebuild requests since the latest tick
      rebuilds |-> 0,        \* runs of rebuildMask since the latest tick
      expected |-> 0,        \* sum of emissionRate * dt over the ticks, in 1/MsPerSec
      real     |-> 0,        \* sum of emissionRate * frame duration, in 1/MsPerSec
      due      |-> 0,        \* sum of toSpawn
      spawned  |-> 0,        \* particles pushed
      roomy    |-> TRUE,     \* every spawn loop so far had room for all of toSpawn
      orphan   |-> FALSE ]   \* rebuildMask has run for a layout effect already cleaned up

\* no rebuildMask is running step by step
RbIdle == [ pc |-> "idle" ]

\* the refs and state as the hooks create them
InitRefs ==
    /\ dims = [w |-> 0, h |-> 0, dpr2 |-> 2]
    /\ edgePoints = << >>
    /\ outsideMask = Null
    /\ insideMask = Null
    /\ ready = FALSE
    /\ particles = << >>
    /\ elapsed = 0
    /\ spawnCarry = 0

-----------------------------------------------------------------------------
(* SpecMask: rebuildMask step by step, on every mask of up to MaxW x MaxH *)

\* the state after getImageData has returned `alpha` for a W x H mask
InitMask ==
    /\ InitRefs
    /\ props = StartProps
    /\ obs = StartObs
    /\ \E W \in 1 .. MaxW, H \in 1 .. MaxH :
         /\ env = [w |-> W, h |-> H, dpr2 |-> 2]
         /\ layoutEffect = [cancelled |-> FALSE, fonts |-> "pending", bleed |-> 0]
         /\ canvas = [w |-> W, h |-> H, drawn |-> {}]
         /\ \E alpha \in [Cells(W, H) -> AlphaLevels] :
              rb = [ pc |-> "threshold", W |-> W, H |-> H, alpha |-> alpha,
                     inside |-> Null, fs |-> Null, edges |-> << >> ]

MaskFrame == << env, props, layoutEffect, canvas, dims, particles, elapsed, spawnCarry, obs >>
MaskRefs == << edgePoints, outsideMask, insideMask, ready >>

\* the loops building `inside`
MaskThreshold ==
    /\ rb.pc = "threshold"
    /\ rb' = [rb EXCEPT !.pc = "seed", !.inside = InsideOf(rb.alpha, rb.W, rb.H)]
    /\ UNCHANGED << MaskFrame, MaskRefs >>

\* the allocations and the two seeding loops
MaskSeed ==
    /\ rb.pc = "seed"
    /\ rb' = [rb EXCEPT !.pc = "bfs", !.fs = FloodSeed(rb.inside, rb.W, rb.H)]
    /\ UNCHANGED << MaskFrame, MaskRefs >>

\* one iteration of the queue loop
MaskPop ==
    /\ rb.pc = "bfs"
    /\ rb.fs.qh < rb.fs.qt
    /\ rb' = [rb EXCEPT !.fs = FloodPop(rb.fs, rb.inside, rb.W, rb.H)]
    /\ UNCHANGED << MaskFrame, MaskRefs >>

\* the queue loop ends; edge detection
MaskEdges ==
    /\ rb.pc = "bfs"
    /\ ~(rb.fs.qh < rb.fs.qt)
    /\ rb' = [rb EXCEPT !.pc = "publish",
                        !.edges = ExtractEdges(rb.inside, rb.fs.outside, rb.W, rb.H)]
    /\ UNCHANGED << MaskFrame, MaskRefs >>

\* the refs are assigned and setReady(true)
MaskPublish ==
    /\ rb.pc = "publish"
    /\ edgePoints' = rb.edges
    /\ outsideMask' = rb.fs.outside
    /\ insideMask' = rb.inside
    /\ ready' = TRUE
    /\ rb' = [rb EXCEPT !.pc = "done"]
    /\ UNCHANGED MaskFrame

NextMask == MaskThreshold \/ MaskSeed \/ MaskPop \/ MaskEdges \/ MaskPublish

SpecMask == InitMask /\ [][NextMask]_vars

\* the flood fill of the running rebuild has finished
FillDone == rb.pc \in {"publish", "done"}

-----------------------------------------------------------------------------
(* Reachability, as the region labels are specified *)

OnBorder(c, W, H) ==
    LET x == c % W  y == c \div W IN x = 0 \/ y = 0 \/ x = W - 1 \/ y = H - 1

Adjacent8(c, d, W) ==
    /\ c # d
    /\ Abs((c % W) - (d % W)) <= 1
    /\ Abs((c \div W) - (d \div W)) <= 1

RECURSIVE Closure(_, _, _, _)
\* the non-fill cells joined to S by a path of 8-connected non-fill cells
Closure(S, inside, W, H) ==
    LET more == { c \in Cells(W, H) \ S :
                    inside[c] = 0 /\ \E d \in S : Adjacent8(c, d, W) }
    IN IF more = {} THEN S ELSE Closure(S \cup more, inside, W, H)

\* the inked cells off the border ring
InteriorFill(inside, W, H) ==
    { c \in Cells(W, H) : inside[c] = 1 /\ ~OnBorder(c, W, H) }

BorderReachable(inside, W, H) ==
    Closure({ c \in Cells(W, H) : inside[c] = 0 /\ OnBorder(c, W, H) }, inside, W, H)

-----------------------------------------------------------------------------
(* C1 *)

\* C1: once the flood fill of a rebuild has finished, a non-FILL cell is
\* OUTSIDE exactly when a path of 8-connected non-FILL cells joins it to a
\* non-FILL border cell, and every other non-FILL cell is HOLE; so an
\* enclosed void is HOLE and a mask without FILL is all OUTSIDE.
C1_OutsideIffBorderReachable ==
    FillDone =>
      LET W == rb.W  H == rb.H
          reach == BorderReachable(rb.inside, W, H)
      IN /\ \A c \in Cells(W, H) :
              rb.inside[c] = 0 =>
                /\ isOutside(rb.fs.outside, c % W, c \div W, W) <=> c \in reach
                /\ isHole(rb.inside, rb.fs.outside, c % W, c \div W, W) <=> c \notin reach
         /\ (\A c \in Cells(W, H) : rb.inside[c] = 0) =>
              \A c \in Cells(W, H) : isOutside(rb.fs.outside, c % W, c \div W, W)

\* a finished fill with an enclosed void off the border next to OUTSIDE cells
C1_Witness ==
    /\ rb.pc = "done"
    /\ \E c \in Cells(rb.W, rb.H) :
         /\ ~OnBorder(c, rb.W, rb.H)
         /\ isHole(rb.inside, rb.fs.outside, c % rb.W, c \div rb.W, rb.W)
    /\ \E c \in Cells(rb.W, rb.H) : rb.fs.outside[c] = 1

-----------------------------------------------------------------------------
(* C2 *)

\* C2: once the flood fill has finished, every cell carries exactly one of
\* the labels FILL, OUTSIDE, HOLE, and the FILL cells are exactly the cells
\* whose alpha sample exceeds the threshold.
C2_LabelsPartition ==
    FillDone =>
      \A c \in Cells(rb.W, rb.H) :
        LET x == c % rb.W  y == c \div rb.W
            fill == insideAt(rb.inside, x, y, rb.W)
            out  == isOutside(rb.fs.outside, x, y, rb.W)
            hole == isHole(rb.inside, rb.fs.outside, x, y, rb.W)
        IN /\ Bit(fill) + Bit(out) + Bit(hole) = 1
           /\ fill <=> rb.alpha[c] > AlphaThreshold

\* a finished rebuild whose mask has all three labels
C2_Witness ==
    /\ rb.pc = "done"
    /\ \E c \in Cells(rb.W, rb.H) : insideMask[c] = 1
    /\ \E c \in Cells(rb.W, rb.H) : outsideMask[c] = 1
    /\ \E c \in Cells(rb.W, rb.H) : insideMask[c] = 0 /\ outsideMask[c] = 0

-----------------------------------------------------------------------------
(* C3 *)

\* the cell 2 px from the edge pixel along the stored normal, rounded, clamped
ProbeCell(e, W, H) == << Probe(e.x, e.nx, W - 1), Probe(e.y, e.ny, H - 1) >>

\* C3: for every edge point a rebuild emits, the cell 2 px along its stored
\* normal is of the region the point was emitted for: OUTSIDE for a point of
\* the OUTSIDE branch, HOLE for a point of the HOLE branch.
C3_ProbeLandsInClaimedRegion ==
    FillDone =>
      \A i \in 1 .. Len(rb.edges) :
        LET e == rb.edges[i]
            t == ProbeCell(e, rb.W, rb.H)
        IN IF e.kind = "OUTSIDE"
           THEN isOutside(rb.fs.outside, t[1], t[2], rb.W)
           ELSE isHole(rb.inside, rb.fs.outside, t[1], t[2], rb.W)

-----------------------------------------------------------------------------
(* The edge set *)

\* C17: a cell whose two central differences are both zero gets no edge
\* point, so every edge point of the list has a non-zero normal.
C17_EveryEdgePointHasNormal ==
    FillDone =>
      \A i \in 1 .. Len(rb.edges) : rb.edges[i].nx # 0 \/ rb.edges[i].ny # 0

\* the positions in the edge list of the points pushed for cell c by the
\* branch `kind`
PointsAt(c, kind) ==
    { i \in 1 .. Len(rb.edges) :
        CellOf(rb.edges[i].x, rb.edges[i].y, rb.W) = c /\ rb.edges[i].kind = kind }

\* cell c has an 8-neighbour that is OUTSIDE / that is HOLE, the regions
\* being those reachability from the border defines
NextToOutside(c) ==
    \E d \in BorderReachable(rb.inside, rb.W, rb.H) : Adjacent8(c, d, rb.W)
NextToHole(c) ==
    \E d \in Cells(rb.W, rb.H) \ BorderReachable(rb.inside, rb.W, rb.H) :
        rb.inside[d] = 0 /\ Adjacent8(c, d, rb.W)

\* C18: a FILL cell off the border ring has exactly one OUTSIDE-oriented
\* edge point iff one of its 8 neighbours is OUTSIDE, and exactly one
\* HOLE-oriented edge point iff one of its 8 neighbours is HOLE; every
\* other cell has no edge point.
C18_EdgePointsWhereFillTouchesVoid ==
    FillDone =>
      \A c \in Cells(rb.W, rb.H) :
        IF c \in InteriorFill(rb.inside, rb.W, rb.H)
        THEN /\ Cardinality(PointsAt(c, "OUTSIDE")) = Bit(NextToOutside(c))
             /\ Cardinality(PointsAt(c, "HOLE")) = Bit(NextToHole(c))
        ELSE PointsAt(c, "OUTSIDE") = {} /\ PointsAt(c, "HOLE") = {}

\* the edge detection has run on a mask with a cell that touches both the
\* outside and a hole (two points) and a FILL cell that has no point
C18_Witness ==
    /\ FillDone
    /\ \E c \in Cells(rb.W, rb.H) : PointsAt(c, "OUTSIDE") # {} /\ PointsAt(c, "HOLE") # {}
    /\ \E c \in Cells(rb.W, rb.H) :
         rb.inside[c] = 1 /\ PointsAt(c, "OUTSIDE") = {} /\ PointsAt(c, "HOLE") = {}

-----------------------------------------------------------------------------
(* rebuildMask: the size of the canvas and of the mask *)

\* Math.max(1, Math.min(2, window.devicePixelRatio || 1)), in halves
ClampDpr2(raw2) == Max(2, Min(4, IF raw2 = 0 THEN 2 ELSE raw2))

\* canvas.width (or height) for a rect side r, the bleed and the pixel ratio:
\* Math.ceil((Math.max(1, Math.ceil(r)) + bleed * 2) * dpr)
CanvasSide(r, bleed, dpr2) ==
    LET css == Max(1, r) + Max(0, bleed) * 2
    IN (css * dpr2 + 1) \div 2

CanvasDims(e, bleed) ==
    LET dpr2 == ClampDpr2(e.dpr2)
    IN [ w |-> CanvasSide(e.w, bleed, dpr2),
         h |-> CanvasSide(e.h, bleed, dpr2),
         dpr2 |-> dpr2 ]

-----------------------------------------------------------------------------
(* tick: constants and fixed point *)

\* positions are kept in 1/SubPx pixel
SubPx == 4

\* (now - lastTRef.current) / 1000
MsPerSec == 1000

\* Math.min(0.05, ...), in ms
DtClampMs == 50

\* p | 0 on a position: cut toward zero to a whole pixel
ToPixel(v) == DivTrunc(v, SubPx)

\* cos and sin of k eighths of a turn, in 1/NormScale
CosOct(k) ==
    LET d == (NormScale * 707) \div 1000
    IN << NormScale, d, 0, -d, -NormScale, -d, 0, d >>[(k % 8) + 1]
SinOct(k) == CosOct(k + 6)

\* Math.atan2(e.ny, e.nx) in eighths of a turn; atan2(0, 0) is 0 and
\* atan2(-0, -0) is -pi
BaseOct(e) ==
    IF e.nx > 0 THEN (IF e.ny > 0 THEN 1 ELSE IF e.ny < 0 THEN 7 ELSE 0)
    ELSE IF e.nx < 0 THEN (IF e.ny > 0 THEN 3 ELSE IF e.ny < 0 THEN 5 ELSE 4)
    ELSE IF e.ny > 0 THEN 2
    ELSE IF e.ny < 0 THEN 6
    ELSE IF e.negz THEN 4 ELSE 0

-----------------------------------------------------------------------------
(* Scenarios: the inputs one specification draws from *)

\* the props a scenario varies, around the props b
PropsAround(b, rates, caps, pauses, allows) ==
    { [b EXCEPT !.emissionRate = r, !.maxParticles = m, !.paused = p, !.allowInside = a] :
        r \in rates, m \in caps, p \in pauses, a \in allows }

\* the wrapper not yet laid out, and laid out 3 x 3 px
EnvNone == [w |-> 0, h |-> 0, dpr2 |-> 2]
EnvSmall == [w |-> 3, h |-> 3, dpr2 |-> 2]

\* sparks that live through four 50 ms ticks
LongLived == [StartProps EXCEPT !.emissionRate = 10, !.ttlMin = 200, !.ttlMax = 200]

\* room for every particle the model spawns
Roomy == [StartProps EXCEPT !.maxParticles = MaxDue]

\* the pool under changing maxParticles, paused and emissionRate; sparks at rest
ScPool ==
    [ envs   |-> { EnvSmall },
      glyphs |-> { "blank", "dot" },
      throws |-> FALSE,
      gaps   |-> { DtClampMs },
      maxElapsed |-> DtClampMs,
      burst  |-> 1,
      offs   |-> { 5 },
      start  |-> LongLived,
      props  |-> PropsAround(LongLived, {10, 40}, 0 .. MaxCap, BOOLEAN, {FALSE}) ]

\* frames of 25, 50 and 100 ms, two emission rates, a pool with room for
\* every spawn and a pool of one
ScTime ==
    [ envs   |-> { EnvSmall },
      glyphs |-> { "blank", "dot" },
      throws |-> FALSE,
      gaps   |-> { 25, 50, MaxElapsed },
      maxElapsed |-> MaxElapsed,
      burst  |-> 1,
      offs   |-> { 5 },
      start  |-> Roomy,
      props  |-> PropsAround(Roomy, {20, 30}, {1, MaxDue}, {FALSE}, {FALSE}) ]

\* sparks next to the left border and next to a stroke, the documented
\* allowInside switched on and off
ScCull ==
    [ envs   |-> { EnvSmall },
      glyphs |-> { "blank", "dot", "bar" },
      throws |-> FALSE,
      gaps   |-> { 25, 50 },
      maxElapsed |-> DtClampMs,
      burst  |-> 1,
      offs   |-> { 5, 7 },
      start  |-> StartProps,
      props  |-> PropsAround(StartProps, {20}, {MaxCap}, {FALSE}, BOOLEAN) ]

\* resizes and the fonts wait in bursts, rebuilds that may be abandoned
ScBuild ==
    [ envs   |-> { EnvNone, EnvSmall },
      glyphs |-> { "blank", "dot" },
      throws |-> TRUE,
      gaps   |-> { 50 },
      maxElapsed |-> MaxElapsed,
      burst  |-> MaxBurst,
      offs   |-> { 5 },
      start  |-> StartProps,
      props  |-> PropsAround(StartProps, {20}, {MaxCap}, BOOLEAN, {FALSE}) ]

\* the emission switched off and on
ScQuiet ==
    [ envs   |-> { EnvSmall },
      glyphs |-> { "blank", "dot" },
      throws |-> FALSE,
      gaps   |-> { 25, 50 },
      maxElapsed |-> DtClampMs,
      burst  |-> 1,
      offs   |-> { 5 },
      start  |-> [StartProps EXCEPT !.emissionRate = 0],
      props  |-> PropsAround(StartProps, {0, 20}, {MaxCap}, BOOLEAN, {FALSE}) ]

\* ttl = {min: t, max: t} for lifetimes t of -50, 0, 50 and 100 ms
TtlProps == { [StartProps EXCEPT !.ttlMin = t, !.ttlMax = t] : t \in {-50, 0, 50, 100} }

\* sparks of several lifetimes, among them none at all
ScExpiry ==
    [ envs   |-> { EnvSmall },
      glyphs |-> { "blank", "dot" },
      throws |-> FALSE,
      gaps   |-> { 25, 50 },
      maxElapsed |-> DtClampMs,
      burst  |-> 1,
      offs   |-> { 5 },
      start  |-> StartProps,
      props  |-> TtlProps ]

\* frames of 25, 50 and 100 ms, before the mask is there, with pauses and
\* with an empty text in between
ScClock ==
    [ envs   |-> { EnvSmall },
      glyphs |-> { "blank", "dot" },
      throws |-> FALSE,
      gaps   |-> { 25, 50, MaxElapsed },
      maxElapsed |-> MaxElapsed,
      burst  |-> 1,
      offs   |-> { 5 },
      start  |-> StartProps,
      props  |-> PropsAround(StartProps, {20}, {MaxCap}, BOOLEAN, {FALSE}) ]

\* frames that keep coming, the text emptied and set again, the emission
\* switched off and on
ScFade ==
    [ envs   |-> { EnvSmall },
      glyphs |-> { "blank", "dot" },
      throws |-> FALSE,
      gaps   |-> { DtClampMs },
      maxElapsed |-> DtClampMs,
      burst  |-> 1,
      offs   |-> { 5 },
      start  |-> LongLived,
      props  |-> PropsAround(LongLived, {0, 20}, {MaxCap}, {FALSE}, {FALSE}) ]

-----------------------------------------------------------------------------
(* tick: what Math.random() may return, per spawned particle *)

\* 1.2 + Math.random() * 1.8, in 1/SubPx pixel: the offsets in [1.2, 3.0)
OffLevels(sc) == { o \in sc.offs : 12 * SubPx <= 10 * o /\ o < 3 * SubPx }

\* (Math.random() - 0.5) * spread, in whole eighths of a turn
Jitters(spreadOct) == { j \in -4 .. 4 : -spreadOct <= 2 * j /\ 2 * j < spreadOct } \cup {0}

\* 0.8 + Math.random() * 0.6, in 1/1000
SpdFactors == { 1000 }

\* ttl.min + Math.random() * (ttl.max - ttl.min), in ms
TtlLevels(pr) ==
    { pr.ttlMin } \cup (IF pr.ttlMax > pr.ttlMin + 1 THEN { (pr.ttlMin + pr.ttlMax) \div 2 } ELSE {})

\* the draws of one pass through the spawn loop
Draws(edges, pr, sc) ==
    [ e : 1 .. Len(edges), off : OffLevels(sc), j : Jitters(pr.spreadOct),
      spd : SpdFactors, ttl : TtlLevels(pr) ]

-----------------------------------------------------------------------------
(* tick: spawn, update *)

\* the particle pushed by one pass of the spawn loop; id numbers the
\* particles in the order they were pushed (history)
NewParticle(edges, pr, d, id) ==
    LET e   == edges[d.e]
        oct == (BaseOct(e) + d.j + 8) % 8
        spd == DivTrunc(pr.speed * SubPx * d.spd, 1000)
    IN [ x    |-> e.x * SubPx + DivTrunc(CosOct(oct) * d.off, NormScale),
         y    |-> e.y * SubPx + DivTrunc(SinOct(oct) * d.off, NormScale),
         vx   |-> DivTrunc(CosOct(oct) * spd, NormScale),
         vy   |-> DivTrunc(SinOct(oct) * spd, NormScale),
         life |-> 0,
         ttl  |-> d.ttl,
         id   |-> id ]

\* the budget step, removing one particle too few
TrimMutOneShort(arr, cap) ==
    IF Len(arr) > cap THEN SubSeq(arr, Max(0, Len(arr) - cap - 1) + 1, Len(arr)) ELSE arr

\* the budget step, keeping the front of the array
TrimMutKeepOldest(arr, cap) ==
    IF Len(arr) > cap THEN SubSeq(arr, 1, Max(0, cap)) ELSE arr

\* arr.splice(0, Math.max(0, arr.length - maxParticles)) when over budget
Trim(arr, cap) ==
    IF Len(arr) > cap THEN SubSeq(arr, Max(0, Len(arr) - cap) + 1, Len(arr)) ELSE arr

\* the spawn loop testing `toSpawn-- >= 0`: one pass too many
SpawnCountMutOneMore(toSpawn, len, cap) == Max(0, Min(toSpawn + 1, cap - len))

\* the spawn loop without its `arr.length < maxParticles` test
SpawnCountMutUncapped(toSpawn, len, cap) == Max(0, toSpawn)

\* the passes the spawn loop makes: while (toSpawn-- > 0 && arr.length < maxParticles)
SpawnCount(toSpawn, len, cap) == Max(0, Min(toSpawn, cap - len))

\* Math.floor(toSpawnFloat), toSpawnFloat in 1/MsPerSec
ToSpawn(float) == float \div MsPerSec

\* the carry thrown away at every tick
CarryOfMutZero(float) == 0

\* the carry that keeps the whole of toSpawnFloat
CarryOfMutWhole(float) == float

\* toSpawnFloat - toSpawn
CarryOf(float) == float - ToSpawn(float) * MsPerSec

\* dt without the clamp: (now - lastTRef.current) / 1000
DtOfMutNoClamp(sinceLast) == sinceLast

\* Math.min(0.05, (now - lastTRef.current) / 1000), in ms
DtOf(sinceLast) == Min(DtClampMs, sinceLast)

\* the integration of one particle over dt ms
Integrate(p, pr, dt) ==
    LET vy == p.vy + DivTrunc(pr.gravity * SubPx * dt, MsPerSec)
    IN [ p EXCEPT !.vy = vy,
                  !.x = p.x + DivTrunc(p.vx * dt, MsPerSec),
                  !.y = p.y + DivTrunc(vy * dt, MsPerSec),
                  !.life = p.life + dt ]

\* expiry tested with `p.life > p.ttl`
ExpiredMutStrict(p) == p.life > p.ttl

Expired(p) == p.life >= p.ttl

\* the FILL test of the cull: insideMask[iy * w + ix] === 1 (a read past the
\* end of the array is undefined)
OnFill(ix, iy, mask, w) == iy * w + ix \in DOMAIN mask /\ mask[iy * w + ix] = 1

\* the cull test of the update loop, on an integrated particle
Culled(p, mask, w, h) ==
    LET ix == ToPixel(p.x)
        iy == ToPixel(p.y)
    IN ix < 0 \/ iy < 0 \/ ix >= w \/ iy >= h \/ OnFill(ix, iy, mask, w)

\* the update loop: integrate all, drop the expired and the culled
Update(arr, pr, dt, mask, w, h) ==
    LET moved == [i \in 1 .. Len(arr) |-> Integrate(arr[i], pr, dt)]
    IN SelectSeq(moved, LAMBDA p : ~Expired(p) /\ ~Culled(p, mask, w, h))

-----------------------------------------------------------------------------
(* tick: the requestAnimationFrame callback *)

\* what a tick that reaches the spawn accounting computes, for the draws ds
\* (one per pass of the spawn loop)
TickResult(arr, pr, dt, carry, edges, mask, w, h, ds, nextId) ==
    LET kept    == Trim(arr, pr.maxParticles)
        float   == pr.emissionRate * dt + carry
        toSpawn == ToSpawn(float)
        n       == SpawnCount(toSpawn, Len(kept), pr.maxParticles)
        born    == [i \in 1 .. n |-> NewParticle(edges, pr, ds[i], nextId + i - 1)]
        all     == kept \o born
        moved   == [i \in 1 .. Len(all) |-> Integrate(all[i], pr, dt)]
    IN [ arr     |-> Update(all, pr, dt, mask, w, h),
         carry   |-> CarryOf(float),
         toSpawn |-> toSpawn,
         n       |-> n,
         trimmed |-> Len(arr) - Len(kept),
         fillCulled |-> Cardinality({ i \in 1 .. Len(moved) :
                            /\ ~Expired(moved[i])
                            /\ InGrid(ToPixel(moved[i].x), ToPixel(moved[i].y), w, h)
                            /\ Culled(moved[i], mask, w, h) }) ]

\* what the draw step leaves on the canvas: clearRect, then one arc per
\* particle of the pool
Drawn(arr) == { [id |-> arr[i].id, x |-> arr[i].x, y |-> arr[i].y] : i \in 1 .. Len(arr) }

\* a tick that clears the canvas before it tests `paused`
TickIdleMutClears(sc) ==
    /\ ~ready \/ props.paused
    /\ \E gap \in sc.gaps :
         /\ elapsed + gap <= sc.maxElapsed
         /\ elapsed' = elapsed + gap
    /\ canvas' = [canvas EXCEPT !.drawn = {}]
    /\ obs' = [obs EXCEPT !.tick = [NoTick EXCEPT !.ran = TRUE, !.stage = "idle",
                                                  !.lenBefore = Len(particles)],
                          !.requests = 0, !.rebuilds = 0]
    /\ UNCHANGED << env, props, layoutEffect, dims, edgePoints, outsideMask,
                    insideMask, ready, particles, spawnCarry, rb >>

\* `if (!ready || paused) return`: lastTRef keeps its value
TickIdle(sc) ==
    /\ ~ready \/ props.paused
    /\ \E gap \in sc.gaps :
         /\ elapsed + gap <= sc.maxElapsed
         /\ elapsed' = elapsed + gap
    /\ obs' = [obs EXCEPT !.tick = [NoTick EXCEPT !.ran = TRUE, !.stage = "idle",
                                                  !.lenBefore = Len(particles)],
                          !.requests = 0, !.rebuilds = 0]
    /\ UNCHANGED << env, props, layoutEffect, canvas, dims, edgePoints, outsideMask,
                    insideMask, ready, particles, spawnCarry, rb >>

\* a tick that tests the edge list only after the draw step
TickDormantMutDraws(sc) ==
    /\ ready /\ ~props.paused
    /\ insideMask = Null \/ Len(edgePoints) = 0
    /\ \E gap \in sc.gaps : elapsed + gap <= sc.maxElapsed
    /\ elapsed' = 0
    /\ canvas' = [canvas EXCEPT !.drawn = Drawn(particles)]
    /\ obs' = [obs EXCEPT !.tick = [NoTick EXCEPT !.ran = TRUE, !.stage = "dormant",
                                                  !.lenBefore = Len(particles)],
                          !.requests = 0, !.rebuilds = 0]
    /\ UNCHANGED << env, props, layoutEffect, dims, edgePoints, outsideMask,
                    insideMask, ready, particles, spawnCarry, rb >>

\* `if (!insideMask || edges.length === 0) return`: lastTRef is set to now
TickDormant(sc) ==
    /\ ready /\ ~props.paused
    /\ insideMask = Null \/ Len(edgePoints) = 0
    /\ \E gap \in sc.gaps : elapsed + gap <= sc.maxElapsed
    /\ elapsed' = 0
    /\ obs' = [obs EXCEPT !.tick = [NoTick EXCEPT !.ran = TRUE, !.stage = "dormant",
                                                  !.lenBefore = Len(particles)],
                          !.requests = 0, !.rebuilds = 0]
    /\ UNCHANGED << env, props, layoutEffect, canvas, dims, edgePoints, outsideMask,
                    insideMask, ready, particles, spawnCarry, rb >>

\* the tick runs through: budget, spawn, update, draw
TickRun(sc) ==
    /\ ready /\ ~props.paused
    /\ insideMask # Null /\ Len(edgePoints) > 0
    /\ \E gap \in sc.gaps :
        /\ elapsed + gap <= sc.maxElapsed
        /\ LET now == elapsed + gap
               dt  == DtOf(now)
               n0  == SpawnCount(ToSpawn(props.emissionRate * dt + spawnCarry),
                                 Len(Trim(particles, props.maxParticles)), props.maxParticles)
           IN /\ obs.expected + props.emissionRate * dt <= MaxDue * MsPerSec
              /\ \E ds \in [1 .. n0 -> Draws(edgePoints, props, sc)] :
                   \E r \in { TickResult(particles, props, dt, spawnCarry, edgePoints,
                                          insideMask, dims.w, dims.h, ds, obs.spawned + 1) } :
                      /\ particles' = r.arr
                      /\ spawnCarry' = r.carry
                      /\ canvas' = [canvas EXCEPT !.drawn = Drawn(r.arr)]
                      /\ obs' = [obs EXCEPT
                                   !.tick = [ ran |-> TRUE, stage |-> "run", dt |-> dt,
                                              lenBefore |-> Len(particles),
                                              trimmed |-> r.trimmed, due |-> r.toSpawn,
                                              spawned |-> r.n, fillCulled |-> r.fillCulled ],
                                   !.requests = 0, !.rebuilds = 0,
                                   !.expected = @ + props.emissionRate * dt,
                                   !.real = @ + props.emissionRate * gap,
                                   !.due = @ + r.toSpawn,
                                   !.spawned = @ + r.n,
                                   !.roomy = @ /\ Len(particles) - r.trimmed + r.toSpawn
                                                    <= props.maxParticles]
    /\ elapsed' = 0
    /\ UNCHANGED << env, props, layoutEffect, dims, edgePoints, outsideMask,
                    insideMask, ready, rb >>

-----------------------------------------------------------------------------
(* rebuildMask, called from the ResizeObserver and from the fonts wait *)

\* the inked cells of the glyphs the model rasterises, on a W x H mask
InkOf(glyph, W, H) ==
    CASE glyph = "blank" -> {}                                     \* nothing drawn
      [] glyph = "dot"   -> { c \in Cells(W, H) : c = CellOf(1, 1, W) /\ W > 1 }
      [] glyph = "bar"   -> { c \in Cells(W, H) : c \div W = 1 }   \* 1 px, side to side

\* the alpha channels getImageData may return
GlyphAlphas(W, H, sc) ==
    { [c \in Cells(W, H) |-> IF c \in InkOf(g, W, H) THEN AlphaThreshold + 1 ELSE 0] :
        g \in sc.glyphs }

\* how a run of rebuildMask may go: an alpha channel is read, or (Null) the
\* run is abandoned after dimsRef was assigned, because getContext('2d')
\* returned null or getImageData threw
Outcomes(W, H, sc) == GlyphAlphas(W, H, sc) \cup (IF sc.throws THEN { Null } ELSE {})

\* rebuildMask of the render whose canvasBleed is `bleed`, for the layout e:
\* the canvas is resized and dimsRef assigned; then the mask is rasterised
\* and classified, the refs assigned, setReady(true).  `orphan`: the caller
\* belongs to a layout effect that was cleaned up (history)
RebuildWith(e, bleed, orphan, sc) ==
    LET d == CanvasDims(e, bleed) IN
    /\ canvas' = [w |-> d.w, h |-> d.h, drawn |-> {}]    \* a resized canvas is blank
    /\ dims' = d
    /\ \E alpha \in Outcomes(d.w, d.h, sc) :
         IF alpha = Null
         THEN /\ obs' = [obs EXCEPT !.tick = NoTick, !.sameGen = FALSE,
                                    !.requests = @ + 1, !.rebuilds = @ + 1,
                                    !.orphan = @ \/ orphan]
              /\ UNCHANGED << edgePoints, outsideMask, insideMask, ready >>
         ELSE LET inside == InsideOf(alpha, d.w, d.h)
                  fs     == FloodFill(inside, d.w, d.h)
              IN /\ edgePoints' = ExtractEdges(inside, fs.outside, d.w, d.h)
                 /\ outsideMask' = fs.outside
                 /\ insideMask' = inside
                 /\ ready' = TRUE
                 /\ obs' = [obs EXCEPT !.tick = NoTick, !.sameGen = TRUE,
                                       !.requests = @ + 1, !.rebuilds = @ + 1,
                                       !.orphan = @ \/ orphan]

\* rebuildMask as the live layout effect calls it
RebuildMask(e, sc) == RebuildWith(e, layoutEffect.bleed, FALSE, sc)

\* the ResizeObserver callback: () => rebuildMask()
ResizeNotify(sc) ==
    /\ ~layoutEffect.cancelled
    /\ obs.requests < sc.burst
    /\ \E e \in sc.envs :
         /\ env' = e
         /\ RebuildMask(e, sc)
    /\ UNCHANGED << props, layoutEffect, particles, elapsed, spawnCarry, rb >>

\* document.fonts.ready settles: `if (!cancelled) rebuildMask()`
FontsReady(sc) ==
    /\ layoutEffect.fonts = "pending"
    /\ ~layoutEffect.cancelled
    /\ obs.requests < sc.burst
    /\ layoutEffect' = [layoutEffect EXCEPT !.fonts = "settled"]
    /\ RebuildMask(env, sc)
    /\ UNCHANGED << env, props, particles, elapsed, spawnCarry, rb >>

-----------------------------------------------------------------------------
(* the parent renders the component again with other props *)

\* the render commits and the tick effect runs again with the new values
SetProps(sc) ==
    /\ \E pr \in sc.props : pr # props /\ props' = pr
    /\ obs' = [obs EXCEPT !.tick = NoTick]
    /\ UNCHANGED << env, layoutEffect, canvas, dims, edgePoints, outsideMask, insideMask,
                    ready, particles, elapsed, spawnCarry, rb >>

-----------------------------------------------------------------------------
(* The mounted component *)

InitSc(sc) ==
    /\ InitRefs
    /\ env \in sc.envs
    /\ props = sc.start
    /\ layoutEffect = [cancelled |-> FALSE, fonts |-> "pending", bleed |-> sc.start.canvasBleed]
    /\ canvas = [w |-> 300, h |-> 150, drawn |-> {}]
    /\ rb = RbIdle
    /\ obs = StartObs

NextSc(sc) ==
    \/ TickIdle(sc)
    \/ TickDormant(sc)
    \/ TickRun(sc)
    \/ ResizeNotify(sc)
    \/ FontsReady(sc)
    \/ SetProps(sc)

\* SpecPool: the pool under changing maxParticles, paused and emissionRate
InitPool == InitSc(ScPool)
NextPool == NextSc(ScPool)
SpecPool == InitPool /\ [][NextPool]_vars

-----------------------------------------------------------------------------
(* The particle budget *)

\* the latest step was a tick / a tick that got to the budget step
TickEnded == obs.tick.ran
TickProcessed == obs.tick.ran /\ obs.tick.stage = "run"

\* a step that is a call of tick / a run of rebuildMask
TickStep == obs'.tick.ran
RebuildStep == obs'.rebuilds = obs.rebuilds + 1

\* C4 (as stated): at the end of every tick, whatever ticks, rebuilds and
\* changes of props came before, the pool holds at most maxParticles particles.
C4_PoolWithinBudgetEveryTick ==
    TickEnded => Len(particles) <= props.maxParticles

\* C4 (amended): at the end of every tick that gets to the budget step (the
\* component is ready, not paused, and the edge list is not empty), the pool
\* holds at most maxParticles particles, maxParticles a whole number >= 0.
C4_PoolWithinBudgetProcessedTick ==
    TickProcessed /\ props.maxParticles >= 0 => Len(particles) <= props.maxParticles

\* a tick has trimmed a surplus left by a lowered maxParticles and the pool
\* is exactly full
C4_Witness ==
    /\ TickProcessed
    /\ obs.tick.trimmed > 0
    /\ props.maxParticles > 0
    /\ Len(particles) = props.maxParticles

\* the particle with the id of p is in the pool arr
InPool(p, arr) == \E j \in 1 .. Len(arr) : arr[j].id = p.id

\* p is removed by the update loop of a tick of dt ms
RemovedByUpdate(p, dt) ==
    LET q == Integrate(p, props, dt)
    IN Expired(q) \/ Culled(q, insideMask, dims.w, dims.h)

\* a tick that got to the budget step: only the surplus over maxParticles
\* leaves the pool at the budget step, oldest first; nothing is evicted to
\* make room; the due spawns fill the room left, the rest are dropped
BudgetStep ==
    LET cap     == props.maxParticles
        surplus == Max(0, Len(particles) - cap)
        room    == Max(0, cap - (Len(particles) - surplus))
    IN /\ \A i \in 1 .. Len(particles) : InPool(particles[i], particles') => i > surplus
       /\ \A i \in surplus + 1 .. Len(particles) :
            InPool(particles[i], particles') \/ RemovedByUpdate(particles[i], obs'.tick.dt)
       /\ obs'.tick.trimmed = surplus
       /\ obs'.tick.spawned = Min(obs'.tick.due, room)
       /\ cap = 1 => /\ Len(particles') <= 1
                     /\ obs'.tick.spawned > 0 => Len(particles) = 0

\* C7 (as stated): when spawns are due in a tick and the pool is at its
\* ceiling, the oldest particles are evicted to make room and the spawns
\* take place.
C7_SpawnsEvictAtCeiling ==
    /\ TickProcessed
    /\ obs.tick.due > 0
    /\ props.maxParticles > 0
    /\ obs.tick.lenBefore >= props.maxParticles
    => obs.tick.spawned > 0 /\ obs.tick.trimmed > 0

\* C7 (amended): in every tick that gets to the budget step, only the surplus
\* over maxParticles is removed, oldest-inserted first; no particle is evicted
\* to make room for a spawn, the due spawns fill only the room left and the
\* rest are dropped; with maxParticles = 1 the pool holds at most 1 particle
\* after the tick and a particle is spawned only into an empty pool.
C7_SurplusTrimmedSpawnsFillRoom ==
    [][ (obs'.tick.ran /\ obs'.tick.stage = "run") => BudgetStep ]_vars

\* a tick with maxParticles = 1 had a spawn due with the pool full: the
\* particle stayed and the spawn was dropped
C7_Witness ==
    /\ TickProcessed
    /\ props.maxParticles = 1
    /\ obs.tick.lenBefore = 1
    /\ obs.tick.due > 0
    /\ obs.tick.spawned = 0
    /\ obs.tick.trimmed = 0
    /\ Len(particles) = 1

\* the pool holds its particles in the order they were pushed
PoolInInsertionOrder ==
    \A i, j \in 1 .. Len(particles) : i < j => particles[i].id < particles[j].id

\* the tick gets to the budget step
ReachesBudgetStep ==
    ready /\ ~props.paused /\ insideMask # Null /\ Len(edgePoints) > 0

\* a tick that started over budget: the surplus went from the front, the
\* pool after the tick holds only particles of the newest maxParticles, in
\* their order, and nothing was spawned
SurplusDropped ==
    LET cap     == props.maxParticles
        surplus == Len(particles) - cap
    IN /\ obs'.tick.trimmed = surplus
       /\ obs'.tick.spawned = 0
       /\ Len(particles') <= cap
       /\ \A j \in 1 .. Len(particles') :
            \E i \in surplus + 1 .. Len(particles) : particles[i].id = particles'[j].id
       /\ \A i, j \in 1 .. Len(particles') : i < j => particles'[i].id < particles'[j].id

-----------------------------------------------------------------------------
(* Ticks that do nothing: paused, or without edge points *)

\* the step left the pool, the carry and the canvas as they were
PoolAndCanvasKept ==
    /\ particles' = particles
    /\ spawnCarry' = spawnCarry
    /\ canvas' = canvas

\* the step has replaced the canvas size, the masks and the edge list by
\* those of the wrapper as it is laid out now
MaskReplaced ==
    /\ dims'.w = CanvasSide(env'.w, layoutEffect.bleed, dims'.dpr2)
    /\ dims'.h = CanvasSide(env'.h, layoutEffect.bleed, dims'.dpr2)
    /\ canvas'.w = dims'.w /\ canvas'.h = dims'.h
    /\ DOMAIN insideMask' = Cells(dims'.w, dims'.h)
    /\ DOMAIN outsideMask' = Cells(dims'.w, dims'.h)
    /\ \A c \in Cells(dims'.w, dims'.h) :
         outsideMask'[c] = 1 <=> c \in BorderReachable(insideMask', dims'.w, dims'.h)
    /\ \A i \in 1 .. Len(edgePoints') :
         /\ InGrid(edgePoints'[i].x, edgePoints'[i].y, dims'.w, dims'.h)
         /\ insideMask'[CellOf(edgePoints'[i].x, edgePoints'[i].y, dims'.w)] = 1
    /\ (Len(edgePoints') = 0) =
         (\A c \in InteriorFill(insideMask', dims'.w, dims'.h) :
             \A d \in Cells(dims'.w, dims'.h) : Adjacent8(c, d, dims'.w) => insideMask'[d] = 1)
    /\ ready'

\* C12: while paused, a tick changes nothing in the particle pool, the spawn
\* carry or the drawing surface, and a resize or fonts-ready event during
\* the pause still rebuilds and replaces the mask, the region labels and
\* the edge points.
C12_PausedTickKeepsAllRebuildStillRuns ==
    [][ /\ (TickStep /\ props.paused) => PoolAndCanvasKept
        /\ (RebuildStep /\ props.paused) => MaskReplaced ]_vars

\* a paused tick has ended with sparks in the pool and on the canvas and
\* a carry held over
C12_Witness ==
    /\ TickEnded /\ obs.tick.stage = "idle"
    /\ props.paused /\ ready
    /\ Len(particles) > 0
    /\ canvas.drawn # {}
    /\ spawnCarry > 0

\* the spawns a tick schedules and makes, from the pool and carry before it
SpawnsResume ==
    LET cap  == props.maxParticles
        due  == (props.emissionRate * obs'.tick.dt + spawnCarry) \div MsPerSec
        room == Max(0, cap - Min(Len(particles), cap))
    IN /\ obs'.tick.stage = "run"
       /\ obs'.tick.due = due
       /\ obs'.spawned - obs.spawned = Min(due, room)

\* C13: in a tick in which the edge set is empty (mask not yet built, or a
\* mask without edge points), no particle is spawned and nothing is drawn;
\* the first tick after a rebuild has given edge points (and every later
\* one, unless paused) runs the spawn accounting again.
C13_EmptyEdgeSetTickDormant ==
    [][ /\ (TickStep /\ (insideMask = Null \/ Len(edgePoints) = 0))
            => PoolAndCanvasKept /\ obs'.spawned = obs.spawned /\ obs'.tick.spawned = 0
        /\ (TickStep /\ ready /\ ~props.paused /\ insideMask # Null /\ Len(edgePoints) > 0)
            => SpawnsResume ]_vars

\* a tick has found the edge list empty after sparks had been spawned from
\* an earlier mask, and they are still in the pool
C13_Witness ==
    /\ TickEnded /\ obs.tick.stage = "dormant"
    /\ ready /\ ~props.paused
    /\ Len(edgePoints) = 0
    /\ obs.spawned > 0
    /\ Len(particles) > 0

-----------------------------------------------------------------------------
(* The spawn accounting *)

\* SpecTime: frames of several lengths, at changing emission rates
InitTime == InitSc(ScTime)
NextTime == NextSc(ScTime)
SpecTime == InitTime /\ [][NextTime]_vars

\* C8 (as stated): after ticks whose frame durations sum to T seconds, with a
\* non-empty edge set, the number of particles spawned differs from
\* emissionRate * T by less than one particle.
C8_SpawnedWithinOneOfRateTimesT ==
    TickProcessed => Abs(obs.spawned * MsPerSec - obs.real) < MsPerSec

\* C8 (amended): the spawns the ticks have scheduled (the sum of toSpawn)
\* differ from the sum of emissionRate * dt, dt being the frame duration
\* clamped to 50 ms, by the carry, which is less than one particle; no more
\* particles are spawned than scheduled, and exactly as many as long as
\* every spawn loop found room in the pool for all of them.
C8_ScheduledWithinOneOfRateTimesDt ==
    /\ 0 <= spawnCarry /\ spawnCarry < MsPerSec
    /\ obs.due * MsPerSec + spawnCarry = obs.expected
    /\ obs.spawned <= obs.due
    /\ obs.roomy => obs.spawned = obs.due

\* frames of different lengths have been ticked, a carry is held over and
\* two or more particles were spawned, none dropped
C8_Witness ==
    /\ TickProcessed
    /\ obs.roomy
    /\ obs.spawned >= 2
    /\ spawnCarry > 0
    /\ obs.real > obs.expected
    /\ obs.expected >= 2 * MsPerSec
    /\ obs.tick.dt < DtClampMs

-----------------------------------------------------------------------------
(* The cull *)

\* SpecCull: sparks spawned next to the border of the grid and next to ink
InitCull == InitSc(ScCull)
NextCull == NextSc(ScCull)
SpecCull == InitCull /\ [][NextCull]_vars

\* Math.round of a coordinate kept in 1/SubPx pixel
RoundPx(v) == (2 * v + SubPx) \div (2 * SubPx)

\* the rounded position of p is a cell of the grid that is not FILL
OffFillInGrid(p) ==
    LET ix == RoundPx(p.x)
        iy == RoundPx(p.y)
    IN /\ InGrid(ix, iy, dims.w, dims.h)
       /\ insideMask[CellOf(ix, iy, dims.w)] # 1

\* C5: with allowInside = false, at the end of every tick no live particle's
\* rounded pixel position lies outside the grid or on a FILL cell.
C5_NoLiveParticleOffGridOrOnFill ==
    TickProcessed /\ ~props.allowInside =>
        \A i \in 1 .. Len(particles) : OffFillInGrid(particles[i])

\* C6: with allowInside = true, a particle whose position lies on a FILL
\* cell is not culled; particles go only by expiry or by leaving the grid.
C6_AllowInsideKeepsParticlesOnFill ==
    TickProcessed /\ props.allowInside => obs.tick.fillCulled = 0

-----------------------------------------------------------------------------
(* The rebuilds *)

\* SpecBuild: bursts of rebuild requests, rebuilds that may be abandoned
InitBuild == InitSc(ScBuild)
NextBuild == NextSc(ScBuild)
SpecBuild == InitBuild /\ [][NextBuild]_vars

\* C9: whenever a tick reads the dimensions, the masks and the edge list,
\* they were all left by the same rebuild, also after a rebuild that was
\* abandoned part-way.
C9_TickReadsOneGeneration ==
    TickProcessed =>
        /\ obs.sameGen
        /\ DOMAIN insideMask = Cells(dims.w, dims.h)
        /\ DOMAIN outsideMask = Cells(dims.w, dims.h)

\* C10: rebuild requests that arrive between two consecutive ticks are
\* served by one rebuild of the mask.
C10_BurstRebuildsOnce ==
    obs.requests >= 2 => obs.rebuilds = 1

-----------------------------------------------------------------------------
(* The life of the layout effect: re-runs, unmount, the fonts wait failing *)

\* the props a parent passes while it changes canvasBleed
BleedProps == { [StartProps EXCEPT !.canvasBleed = b] : b \in {0, 1} }

\* a component whose text and canvasBleed change, and that is unmounted
ScLife ==
    [ envs   |-> { EnvNone },
      glyphs |-> { "blank", "dot" },
      throws |-> FALSE,
      gaps   |-> { 50 },
      maxElapsed |-> DtClampMs,
      burst  |-> 1,
      offs   |-> { 5 },
      start  |-> StartProps,
      props  |-> BleedProps ]

\* the layout effect of the first render: mounted, and no fonts wait of an
\* earlier run of the effect is pending
InitLife ==
    /\ InitRefs
    /\ env \in ScLife.envs
    /\ props = ScLife.start
    /\ layoutEffect = [ cancelled |-> FALSE, fonts |-> "pending",
                        bleed |-> ScLife.start.canvasBleed,
                        mounted |-> TRUE, orphans |-> {} ]
    /\ canvas = [w |-> 300, h |-> 150, drawn |-> {}]
    /\ rb = RbIdle
    /\ obs = StartObs

\* the fonts waits left pending once the live run of the effect is cleaned
\* up: each is the closure of a render, told by its canvasBleed
OrphansAfterCleanup ==
    layoutEffect.orphans \cup
        (IF layoutEffect.fonts = "pending" THEN { layoutEffect.bleed } ELSE {})

\* children or className changed: the cleanup of the layout effect runs
\* (cancelled = true, ro.disconnect()) and the effect runs again, with the
\* rebuildMask of the new render
Rerender ==
    /\ layoutEffect.mounted
    /\ layoutEffect' = [layoutEffect EXCEPT !.fonts = "pending",
                                            !.bleed = props.canvasBleed,
                                            !.orphans = OrphansAfterCleanup]
    /\ obs' = [obs EXCEPT !.tick = NoTick]
    /\ UNCHANGED << env, props, canvas, dims, edgePoints, outsideMask, insideMask,
                    ready, particles, elapsed, spawnCarry, rb >>

\* the component is unmounted: both cleanups run, the refs to the DOM
\* nodes become null
Unmount ==
    /\ layoutEffect.mounted
    /\ layoutEffect' = [layoutEffect EXCEPT !.cancelled = TRUE, !.mounted = FALSE,
                                            !.fonts = "settled",
                                            !.orphans = OrphansAfterCleanup]
    /\ obs' = [obs EXCEPT !.tick = NoTick]
    /\ UNCHANGED << env, props, canvas, dims, edgePoints, outsideMask, insideMask,
                    ready, particles, elapsed, spawnCarry, rb >>

\* document.fonts.ready settles for a run of the effect that was cleaned
\* up: `if (!cancelled) rebuildMask()` does nothing
OrphanFontsReady ==
    /\ \E b \in layoutEffect.orphans :
         layoutEffect' = [layoutEffect EXCEPT !.orphans = @ \ {b}]
    /\ obs' = [obs EXCEPT !.tick = NoTick]
    /\ UNCHANGED << env, props, canvas, dims, edgePoints, outsideMask, insideMask,
                    ready, particles, elapsed, spawnCarry, rb >>

\* the fonts wait of the live run of the effect fails: catch { rebuildMask() }
FontsFail(sc) ==
    /\ layoutEffect.mounted
    /\ layoutEffect.fonts = "pending"
    /\ obs.requests < sc.burst
    /\ layoutEffect' = [layoutEffect EXCEPT !.fonts = "settled"]
    /\ RebuildMask(env, sc)
    /\ UNCHANGED << env, props, particles, elapsed, spawnCarry, rb >>

\* the fonts wait of a run of the effect that was cleaned up fails:
\* catch { rebuildMask() } does not read `cancelled`; rebuildMask returns at
\* once when the refs are null (unmounted), and otherwise rebuilds with the
\* canvasBleed of its own render
OrphanFontsFail(sc) ==
    /\ obs.requests < sc.burst
    /\ \E b \in layoutEffect.orphans :
         /\ layoutEffect' = [layoutEffect EXCEPT !.orphans = @ \ {b}]
         /\ IF layoutEffect.mounted
            THEN RebuildWith(env, b, TRUE, sc)
            ELSE /\ obs' = [obs EXCEPT !.tick = NoTick]
                 /\ UNCHANGED << canvas, dims, edgePoints, outsideMask, insideMask, ready >>
    /\ UNCHANGED << env, props, particles, elapsed, spawnCarry, rb >>

\* the callbacks of a mounted component, and what may still arrive later
NextLife ==
    \/ layoutEffect.mounted /\ TickIdle(ScLife)
    \/ layoutEffect.mounted /\ TickDormant(ScLife)
    \/ layoutEffect.mounted /\ TickRun(ScLife)
    \/ layoutEffect.mounted /\ ResizeNotify(ScLife)
    \/ layoutEffect.mounted /\ FontsReady(ScLife)
    \/ layoutEffect.mounted /\ SetProps(ScLife)
    \/ Rerender
    \/ Unmount
    \/ OrphanFontsReady
    \/ FontsFail(ScLife)
    \/ OrphanFontsFail(ScLife)

SpecLife == InitLife /\ [][NextLife]_vars

\* C11: once a run of the layout effect is cleaned up (or the component is
\* unmounted), no mask rebuild runs for it again, also not from the
\* failure path of its fonts wait, and no tick runs after the unmount.
C11_NothingRunsAfterCleanup ==
    /\ ~obs.orphan
    /\ ~layoutEffect.mounted => ~obs.tick.ran

\* C14: every rebuild publishes a mask computed from the current values of
\* the rasterizer inputs, in particular from the current canvasBleed.
C14_RebuildUsesCurrentBleed ==
    [][ obs'.rebuilds = obs.rebuilds + 1 => dims' = CanvasDims(env', props'.canvasBleed) ]_vars

-----------------------------------------------------------------------------
(* No emission *)

\* SpecQuiet: emissionRate 0, switched to 20 and back
InitQuiet == InitSc(ScQuiet)
NextQuiet == NextSc(ScQuiet)
SpecQuiet == InitQuiet /\ [][NextQuiet]_vars

\* C16: with emissionRate = 0 a pool that is empty is empty after every
\* tick, whatever the number and the durations of the ticks, the rebuilds
\* in between and the carry left by an earlier emission.
C16_NoEmissionPoolStaysEmpty ==
    /\ [](obs.expected = 0 => Len(particles) = 0)
    /\ [][ (TickStep /\ props.emissionRate = 0 /\ Len(particles) = 0)
            => Len(particles') = 0 ]_vars

\* a tick with emissionRate = 0 has run through on an empty pool with a
\* carry left over from an earlier emission, and the pool is empty
C16_Witness ==
    /\ TickProcessed
    /\ props.emissionRate = 0
    /\ obs.tick.lenBefore = 0
    /\ spawnCarry > 0
    /\ obs.spawned > 0
    /\ Len(particles) = 0

-----------------------------------------------------------------------------
(* Expiry *)

\* SpecExpiry: lifetimes above, at and below zero
InitExpiry == InitSc(ScExpiry)
NextExpiry == NextSc(ScExpiry)
SpecExpiry == InitExpiry /\ [][NextExpiry]_vars

\* C20: at the end of every tick that gets to the update step no live
\* particle has life >= ttl (one spawned with a zero or negative ttl is gone
\* by the end of the tick that spawned it), and a particle that left the
\* pool is never in it again: what is in the pool after a step was in it
\* before the step or was created by it.
C20_NoExpiredParticleNoReturn ==
    /\ [](TickProcessed => \A i \in 1 .. Len(particles) : particles[i].life < particles[i].ttl)
    /\ [][ \A j \in 1 .. Len(particles') :
              InPool(particles'[j], particles) \/ particles'[j].id > obs.spawned ]_vars

\* a tick has spawned a particle with a lifetime of zero or less and the
\* pool is empty at its end
C20_Witness ==
    /\ TickProcessed
    /\ props.ttlMax <= 0
    /\ obs.tick.lenBefore = 0
    /\ obs.tick.spawned > 0
    /\ Len(particles) = 0

-----------------------------------------------------------------------------
(* Defaults of the options *)

\* an option is << >> when it is undefined and << v >> when it has the value v
Undefined == << >>

Some(v) == << v >>

OptionNames ==
    { "emissionRate", "speed", "gravity", "maxParticles", "particleSize", "ttl",
      "paused", "canvasBleed", "allowInside" }

\* the defaults of the destructuring parameter of SparkleText; sizes in
\* 1/10 px, lifetimes in ms.  allowInside is not a parameter: it stays
\* undefined
ParameterDefaults ==
    [ emissionRate |-> Some(180),
      speed        |-> Some(120),
      gravity      |-> Some(100),
      maxParticles |-> Some(1200),
      particleSize |-> Some([min |-> 7, max |-> 20]),
      ttl          |-> Some([min |-> 700, max |-> 1600]),
      paused       |-> Some(FALSE),
      canvasBleed  |-> Some(48),
      allowInside  |-> Undefined ]

\* SPARKLE_DEFAULTS, in the same units
SPARKLE_DEFAULTS ==
    [ emissionRate |-> Some(150),
      speed        |-> Some(100),
      gravity      |-> Some(100),
      maxParticles |-> Some(1200),
      particleSize |-> Some([min |-> 5, max |-> 12]),
      ttl          |-> Some([min |-> 500, max |-> 1200]),
      paused       |-> Some(FALSE),
      canvasBleed  |-> Some(60),
      allowInside  |-> Some(FALSE) ]

\* a value a parent may pass for each option
PassedValue ==
    [ emissionRate |-> Some(20),
      speed        |-> Some(50),
      gravity      |-> Some(0),
      maxParticles |-> Some(2),
      particleSize |-> Some([min |-> 10, max |-> 10]),
      ttl          |-> Some([min |-> 100, max |-> 100]),
      paused       |-> Some(TRUE),
      canvasBleed  |-> Some(0),
      allowInside  |-> Some(TRUE) ]

\* the attributes of one <SparkleText>: each option passed or left out
AttrChoices ==
    { [o \in OptionNames |-> IF o \in given THEN PassedValue[o] ELSE Undefined] :
        given \in SUBSET OptionNames }

\* what the function body sees: a parameter default replaces undefined
Effective(attrs) ==
    [o \in OptionNames |-> IF attrs[o] = Undefined THEN ParameterDefaults[o] ELSE attrs[o]]

\* before the first render: props holds the attributes, nothing is bound yet
InitDefaults ==
    /\ InitRefs
    /\ env = EnvNone
    /\ props \in { [attrs |-> a, bound |-> Null] : a \in AttrChoices }
    /\ layoutEffect = [cancelled |-> FALSE, fonts |-> "pending", bleed |-> 0]
    /\ canvas = [w |-> 300, h |-> 150, drawn |-> {}]
    /\ rb = RbIdle
    /\ obs = StartObs

\* the call of SparkleText(props): the parameters are bound
BindParameters ==
    /\ props.bound = Null
    /\ props' = [props EXCEPT !.bound = Effective(props.attrs)]
    /\ UNCHANGED << env, layoutEffect, canvas, dims, edgePoints, outsideMask, insideMask,
                    ready, particles, elapsed, spawnCarry, rb, obs >>

NextDefaults == BindParameters

SpecDefaults == InitDefaults /\ [][NextDefaults]_vars

\* C15: an option that is left out takes its documented default, the value
\* SPARKLE_DEFAULTS gives it.
C15_OmittedOptionsTakeSparkleDefaults ==
    props.bound # Null =>
        \A o \in OptionNames :
            props.attrs[o] = Undefined => props.bound[o] = SPARKLE_DEFAULTS[o]

-----------------------------------------------------------------------------
(* The end of every particle *)

\* a tick that gets past `if (!ready || paused) return`
UnpausedTick(sc) == TickDormant(sc) \/ TickRun(sc)

InitFade == InitSc(ScFade)
NextFade == NextSc(ScFade)

\* the requestAnimationFrame callback, whichever way it goes
Tick(sc) == TickIdle(sc) \/ UnpausedTick(sc)

\* SpecFade: every tick requests the next frame, so tick keeps being called
SpecFade ==
    /\ InitFade
    /\ [][NextFade]_vars
    /\ WF_vars(Tick(ScFade))

\* the particle numbered id is in the pool
Alive(id) == \E i \in 1 .. Len(particles) : particles[i].id = id

\* C21: when unpaused ticks keep occurring, every particle of the pool is
\* removed after finitely many of them, whatever rebuilds happen in between,
\* a rebuild that leaves the edge list empty included.
C21_EveryParticleEventuallyRemoved ==
    []<><<UnpausedTick(ScFade)>>_vars =>
        \A id \in 1 .. MaxDue : [](Alive(id) => <>(~Alive(id)))

-----------------------------------------------------------------------------
(* The clamp of dt *)

InitClock == InitSc(ScClock)
NextClock == NextSc(ScClock)
SpecClock == InitClock /\ [][NextClock]_vars

\* the ages of the particles that the step keeps, before and after it
AgedBy(p, q) == p.id = q.id => q.life - p.life <= DtClampMs

\* C22: the dt a tick uses is between 0 and 0.05 s however long ago the
\* previous processed tick was (first tick after mount, after a pause, after
\* ticks without edge points), and no particle ages by more than 0.05 s in
\* one tick.
C22_DtWithinClamp ==
    /\ [](TickProcessed => 0 <= obs.tick.dt /\ obs.tick.dt <= DtClampMs)
    /\ [][TickStep =>
            \A i \in 1 .. Len(particles) : \A j \in 1 .. Len(particles') :
                AgedBy(particles[i], particles'[j])]_vars

\* a tick came more than 50 ms after the tick before it, used dt = 50 ms, and
\* a particle spawned by a 25 ms tick is 50 ms older
C22_Witness ==
    /\ TickProcessed
    /\ obs.tick.dt = DtClampMs
    /\ obs.real > obs.expected
    /\ \E i \in 1 .. Len(particles) : particles[i].life = DtClampMs + 25

-----------------------------------------------------------------------------
(* The spawn carry *)

\* the step is a tick that gets to the spawn accounting
SpawnAccountingStep == TickStep /\ obs'.tick.stage = "run"

\* what the tick had to spawn, in 1/MsPerSec: emissionRate * dt + carry
DueFloat == props.emissionRate * obs'.tick.dt + spawnCarry

\* the spawns that were due and found no room in the pool
DroppedSpawns == obs.tick.due - obs.tick.spawned

\* C23: with emissionRate >= 0 the spawn carry is in [0, 1) after every
\* tick; a tick keeps only the fraction of what was due, so the spawns that
\* found the pool at maxParticles are dropped, not carried over.
C23_CarryIsFractionOnly ==
    /\ [](0 <= spawnCarry /\ spawnCarry < MsPerSec)
    /\ [][SpawnAccountingStep =>
            /\ obs'.tick.due = DueFloat \div MsPerSec
            /\ spawnCarry' = DueFloat % MsPerSec]_vars

\* a tick had a spawn due, the pool of one was full, and the carry it left
\* is a quarter of a particle
C23_Witness ==
    /\ TickProcessed
    /\ props.maxParticles = 1
    /\ DroppedSpawns = 1
    /\ spawnCarry = 250

-----------------------------------------------------------------------------
(* The size of the masks *)

\* the indices iy * w + ix the cull test of a tick can read: it reads the
\* mask only for 0 <= ix < w and 0 <= iy < h, w and h taken from dimsRef
CullIndices == { CellOf(ix, iy, dims.w) : ix \in 0 .. dims.w - 1, iy \in 0 .. dims.h - 1 }

\* C24: after any rebuild, one for a container without a size included, the
\* mask is as wide and as high as the backing store of the canvas, both at
\* least 1, the fill and outside arrays have width * height cells, and every
\* index the cull test of a tick reads is within the fill array.
C24_MaskSizedAsCanvas ==
    ready =>
        /\ dims.w = canvas.w /\ dims.h = canvas.h
        /\ dims.w >= 1 /\ dims.h >= 1
        /\ DOMAIN insideMask = Cells(canvas.w, canvas.h)
        /\ DOMAIN outsideMask = Cells(canvas.w, canvas.h)
        /\ CullIndices \subseteq DOMAIN insideMask

-----------------------------------------------------------------------------
(* The queue of the flood fill *)

\* the queue exists: the seeding loops have run
Seeded == rb.pc \in {"bfs", "publish", "done"}

\* no cell was enqueued twice
EnqueuedOnce ==
    \A i, j \in 1 .. Len(rb.fs.enq) : rb.fs.enq[i] = rb.fs.enq[j] => i = j

\* the step is one iteration of `while (qh < qt)`
QueueLoopStep == rb.pc = "bfs" /\ rb'.pc = "bfs"

\* C25: the flood fill ends on every mask (every iteration of its loop
\* moves the head of the queue one entry on, toward a tail that stays within
\* width * height); a cell is enqueued at most once, marked when it is
\* enqueued; no FILL cell is enqueued; the tail of the queue stays within the
\* width * height entries allocated.
C25_FloodFillBoundedQueue ==
    /\ [](Seeded =>
            /\ EnqueuedOnce
            /\ \A i \in 1 .. Len(rb.fs.enq) :
                    rb.inside[rb.fs.enq[i]] = 0 /\ rb.fs.outside[rb.fs.enq[i]] = 1
            /\ rb.fs.qt = Len(rb.fs.enq)
            /\ rb.fs.qh <= rb.fs.qt
            /\ rb.fs.qt <= rb.W * rb.H)
    /\ [][QueueLoopStep => rb'.fs.qh = rb.fs.qh + 1 /\ rb'.fs.qh <= rb.W * rb.H]_vars

\* a fill that has ended on a mask with an inked border cell and a hole,
\* its queue used and emptied
C25_Witness ==
    /\ rb.pc = "done"
    /\ rb.fs.qh = rb.fs.qt /\ rb.fs.qt > 1
    /\ \E c \in Cells(rb.W, rb.H) : OnBorder(c, rb.W, rb.H) /\ rb.inside[c] = 1
    /\ \E c \in Cells(rb.W, rb.H) : rb.inside[c] = 0 /\ rb.fs.outside[c] = 0

====
